---- MODULE Spec2Model ----
(***************************************************************************)
(* HappyBees / BeeWatch edge-node firmware (firmware/source/main.cpp,      *)
(* V0.6.0): the serial command loop, the climate read, the audio           *)
(* processing pass (DC removal, gain, cascaded biquads, Hanning window,    *)
(* narrow-band DFT), the Summer and Winter feature vectors and their       *)
(* rolling histories.                                                      *)
(*                                                                         *)
(* Numbers.  A C float or double is modelled as a fixed-point integer with *)
(* FX units per 1.0 (1.5 is 1500); products and quotients are rescaled and *)
(* rounded down.  The model's audio buffer and window are shorter than the *)
(* firmware's (AUDIO_BUFFER_SIZE, FFT_SIZE, FFT_HOP below); the window     *)
(* count is computed from them by the firmware's own formula.              *)
(***************************************************************************)
EXTENDS Integers, Sequences, FiniteSets, TLC

\* ------------------------------------------------------------------------
\* Fixed-point arithmetic
\* ------------------------------------------------------------------------
FX == 1000

Mul(a, b) == (a * b) \div FX
DivF(a, b) == (a * FX) \div b

\* The float literal 1e-6f: the smallest positive value of the fixed-point grid.
EPS == 1

RECURSIVE IsqrtB(_, _, _)
IsqrtB(n, lo, hi) ==
    IF lo >= hi THEN lo
    ELSE LET mid == (lo + hi + 1) \div 2
         IN  IF mid * mid <= n THEN IsqrtB(n, mid, hi) ELSE IsqrtB(n, lo, mid - 1)

\* floor(sqrt(n)) for 0 <= n < 2^31
Isqrt(n) == IF n <= 0 THEN 0 ELSE IsqrtB(n, 0, 46340)

\* sqrtf / sqrt of a fixed-point value
SqrtF(v) == Isqrt(v * FX)

Abs(x) == IF x < 0 THEN -x ELSE x

RECURSIVE SumSeq(_)
SumSeq(s) == IF s = <<>> THEN 0 ELSE s[1] + SumSeq(Tail(s))

\* sin(pi * p / q) for 0 <= p <= q (Bhaskara's rational form of the sine)
SinHalfTurn(p, q) == (16 * p * (q - p) * FX) \div (5 * q * q - 4 * p * (q - p))

\* sin(pi * a / q) for any integer a >= 0
SinPi(a, q) ==
    LET r == a % (2 * q)
    IN  IF r <= q THEN SinHalfTurn(r, q) ELSE -SinHalfTurn(r - q, q)

\* cos(2 pi p / q) and sin(2 pi p / q), p >= 0
CosTurn(p, q) == SinPi(4 * p + q, 2 * q)
SinTurn(p, q) == SinPi(2 * p, q)

\* ------------------------------------------------------------------------
\* Configuration (main.cpp:38-44)
\* ------------------------------------------------------------------------
\* The firmware samples at 16000 Hz with FFT_SIZE = FFT_HOP = 512; the model
\* keeps hop = window and, like 96000 / 512, a buffer length that is not a
\* multiple of the window length.
SAMPLE_RATE_HZ == 2
CAPTURE_SECONDS == 6
AUDIO_BUFFER_SIZE == SAMPLE_RATE_HZ * CAPTURE_SECONDS
FFT_SIZE == 5
FFT_HOP == 5
HISTORY_SIZE == 12
NUM_FREQ_BINS == 20

\* main.cpp:388
num_windows == (AUDIO_BUFFER_SIZE - FFT_SIZE) \div FFT_HOP + 1

\* Filter coefficients (main.cpp:104-123), in FX units
HP_B0 == 973
HP_B1 == -1945
HP_B2 == 973
HP_A1 == -1944
HP_A2 == 946
LP1_B0 == 446
LP1_B1 == 446
LP1_A1 == 414
LP2_B0 == 391
LP2_B1 == 783
LP2_B2 == 391
LP2_A1 == -370
LP2_A2 == -196

\* ------------------------------------------------------------------------
\* Text: characters are one-character strings, a line is a sequence of them
\* ------------------------------------------------------------------------
Digits == {"0", "1", "2", "3", "4", "5", "6", "7", "8", "9"}

DigitVal(c) ==
    CASE c = "0" -> 0 [] c = "1" -> 1 [] c = "2" -> 2 [] c = "3" -> 3
      [] c = "4" -> 4 [] c = "5" -> 5 [] c = "6" -> 6 [] c = "7" -> 7
      [] c = "8" -> 8 [] c = "9" -> 9

At(s, i) == IF i >= 1 /\ i <= Len(s) THEN s[i] ELSE "NUL"

RECURSIVE SkipSpace(_, _)
SkipSpace(s, i) == IF At(s, i) = " " THEN SkipSpace(s, i + 1) ELSE i

\* integer digits from position i: <<value, next position, digits read>>
RECURSIVE ScanInt(_, _, _, _)
ScanInt(s, i, acc, n) ==
    IF At(s, i) \in Digits
    THEN ScanInt(s, i + 1, acc * 10 + DigitVal(s[i]), n + 1)
    ELSE <<acc, i, n>>

\* fraction digits from position i; scale is the weight of the next digit
RECURSIVE ScanFrac(_, _, _, _, _)
ScanFrac(s, i, acc, scale, n) ==
    IF At(s, i) \in Digits
    THEN ScanFrac(s, i + 1, acc + DigitVal(s[i]) * scale, scale \div 10, n + 1)
    ELSE <<acc, i, n>>

\* strtod's decimal form from position i: optional blanks, optional sign,
\* digits, optional point and digits; ok is false when no digit was read.
ParseFloat(s, i) ==
    LET j    == SkipSpace(s, i)
        neg  == At(s, j) = "-"
        k    == IF At(s, j) \in {"-", "+"} THEN j + 1 ELSE j
        ip   == ScanInt(s, k, 0, 0)
        fp   == IF At(s, ip[2]) = "."
                THEN ScanFrac(s, ip[2] + 1, 0, FX \div 10, 0)
                ELSE <<0, ip[2], 0>>
        ok   == ip[3] + fp[3] > 0
        mag  == ip[1] * FX + fp[1]
    IN  [ok |-> ok, val |-> IF neg THEN -mag ELSE mag,
         next |-> IF ok THEN fp[2] ELSE i]

\* atof (main.cpp:763): 0.0 when nothing converts
Atof(s) == LET r == ParseFloat(s, 1) IN IF r.ok THEN r.val ELSE 0

\* atoi (main.cpp:725)
Atoi(s) ==
    LET j   == SkipSpace(s, 1)
        neg == At(s, j) = "-"
        k   == IF At(s, j) \in {"-", "+"} THEN j + 1 ELSE j
        ip  == ScanInt(s, k, 0, 0)
    IN  IF neg THEN -ip[1] ELSE ip[1]

\* sscanf(s, "%f,%f,%f", ...) (main.cpp:751): the number of conversions and
\* the converted values
Sscanf3(s) ==
    LET a == ParseFloat(s, 1)
        b == ParseFloat(s, a.next + 1)
        c == ParseFloat(s, b.next + 1)
    IN  IF ~a.ok THEN [n |-> 0, v |-> <<0, 0, 0>>]
        ELSE IF At(s, a.next) # "," \/ ~b.ok THEN [n |-> 1, v |-> <<a.val, 0, 0>>]
        ELSE IF At(s, b.next) # "," \/ ~c.ok THEN [n |-> 2, v |-> <<a.val, b.val, 0>>]
        ELSE [n |-> 3, v |-> <<a.val, b.val, c.val>>]

\* ------------------------------------------------------------------------
\* Signal conditioning and spectral analysis
\* ------------------------------------------------------------------------
\* reset_filters (main.cpp:140-144)
ZeroFilter == [hp_w1 |-> 0, hp_w2 |-> 0, lp1_w1 |-> 0, lp2_w1 |-> 0, lp2_w2 |-> 0]

\* biquad_hp (main.cpp:147-152): the new filter state and the output sample
biquad_hp(f, x) ==
    LET y == Mul(HP_B0, x) + f.hp_w1
    IN  [f |-> [f EXCEPT !.hp_w1 = Mul(HP_B1, x) - Mul(HP_A1, y) + f.hp_w2,
                         !.hp_w2 = Mul(HP_B2, x) - Mul(HP_A2, y)],
         y |-> y]

\* biquad_lp1 (main.cpp:154-158)
biquad_lp1(f, x) ==
    LET y == Mul(LP1_B0, x) + f.lp1_w1
    IN  [f |-> [f EXCEPT !.lp1_w1 = Mul(LP1_B1, x) - Mul(LP1_A1, y)],
         y |-> y]

\* biquad_lp2 (main.cpp:160-165)
biquad_lp2(f, x) ==
    LET y == Mul(LP2_B0, x) + f.lp2_w1
    IN  [f |-> [f EXCEPT !.lp2_w1 = Mul(LP2_B1, x) - Mul(LP2_A1, y) + f.lp2_w2,
                         !.lp2_w2 = Mul(LP2_B2, x) - Mul(LP2_A2, y)],
         y |-> y]

\* main.cpp:407-409: the three sections in their fixed order
FilterSample(f, x) ==
    LET a == biquad_hp(f, x)
        b == biquad_lp1(a.f, a.y)
    IN  biquad_lp2(b.f, b.y)

\* main.cpp:200-202
g_hanning_window ==
    [i \in 0..(FFT_SIZE - 1) |-> Mul(FX \div 2, FX - CosTurn(i, FFT_SIZE - 1))]

\* main.cpp:205-211: angle = -2 pi k n / FFT_SIZE
g_cos_table ==
    [k \in 0..(NUM_FREQ_BINS - 1) |-> [n \in 0..(FFT_SIZE - 1) |-> CosTurn(k * n, FFT_SIZE)]]

g_sin_table ==
    [k \in 0..(NUM_FREQ_BINS - 1) |-> [n \in 0..(FFT_SIZE - 1) |-> -SinTurn(k * n, FFT_SIZE)]]

RECURSIVE Correlate(_, _, _)
Correlate(windowed_data, table, n) ==
    IF n = FFT_SIZE THEN 0
    ELSE Mul(windowed_data[n], table[n]) + Correlate(windowed_data, table, n + 1)

\* compute_bin_magnitude_accurate (main.cpp:360-370)
compute_bin_magnitude_accurate(windowed_data, k) ==
    LET real_sum == Correlate(windowed_data, g_cos_table[k], 0)
        imag_sum == Correlate(windowed_data, g_sin_table[k], 0)
    IN  Isqrt(real_sum * real_sum + imag_sum * imag_sum)

\* main.cpp:381-385: the DC offset is the mean of every raw sample
DcOffset(buf) == (SumSeq(buf) * FX) \div AUDIO_BUFFER_SIZE

\* main.cpp:403-404
mut_Condition(raw, dc, gain) == Mul((raw * FX) \div 2048, gain)

Condition(raw, dc, gain) == Mul((raw * FX - dc) \div 2048, gain)

\* The sample loop of one window (main.cpp:400-417).  st carries the loop
\* variable i, the filter state, rms_sum, rms_count and g_fft_input.
RECURSIVE SampleLoop(_, _, _, _, _)
SampleLoop(st, buf, offset, dc, gain) ==
    IF st.i = FFT_SIZE THEN st
    ELSE LET r      == FilterSample(st.filt, Condition(buf[offset + st.i + 1], dc, gain))
             sample == r.y
         IN  SampleLoop([i         |-> st.i + 1,
                         filt      |-> r.f,
                         rms_sum   |-> st.rms_sum + Mul(sample, sample),
                         rms_count |-> st.rms_count + 1,
                         fft_input |-> [st.fft_input EXCEPT
                                            ![st.i] = Mul(sample, g_hanning_window[st.i])]],
                        buf, offset, dc, gain)

\* The loop state at the top of a window: i = 0 (main.cpp:400)
WindowEntry(filt, st) ==
    [i |-> 0, filt |-> filt, rms_sum |-> st.rms_sum, rms_count |-> st.rms_count,
     fft_input |-> st.fft_input]

\* One iteration of the window loop (main.cpp:397-424)
mut_ProcessWindow(st, buf, win, dc, gain) ==
    LET s == SampleLoop(WindowEntry(ZeroFilter, st), buf, win * FFT_HOP, dc, gain)
    IN  [filt      |-> s.filt,
         rms_sum   |-> s.rms_sum,
         rms_count |-> s.rms_count,
         fft_input |-> s.fft_input,
         bin_accum |-> [k \in 0..(NUM_FREQ_BINS - 1) |->
                            st.bin_accum[k] + compute_bin_magnitude_accurate(s.fft_input, k)]]

ProcessWindow(st, buf, win, dc, gain) ==
    LET s == SampleLoop(WindowEntry(st.filt, st), buf, win * FFT_HOP, dc, gain)
    IN  [filt      |-> s.filt,
         rms_sum   |-> s.rms_sum,
         rms_count |-> s.rms_count,
         fft_input |-> s.fft_input,
         bin_accum |-> [k \in 0..(NUM_FREQ_BINS - 1) |->
                            st.bin_accum[k] + compute_bin_magnitude_accurate(s.fft_input, k)]]

\* The state of a pass before its first window (main.cpp:375-395)
PassStart(fft_input) ==
    [filt      |-> ZeroFilter,
     rms_sum   |-> 0,
     rms_count |-> 0,
     fft_input |-> fft_input,
     bin_accum |-> [k \in 0..(NUM_FREQ_BINS - 1) |-> 0]]

\* The end of a pass (main.cpp:426-438): the RMS density and the averaged bins
PassDensity(st) == SqrtF(st.rms_sum \div st.rms_count)
PassBins(st) == [k \in 0..(NUM_FREQ_BINS - 1) |-> st.bin_accum[k] \div num_windows]

\* process_and_compute_features as one function of the buffer (main.cpp:372-439)
RECURSIVE WindowLoop(_, _, _, _)
WindowLoop(lp, buf, dc, gain) ==
    IF lp.win = num_windows THEN lp.st
    ELSE WindowLoop([win |-> lp.win + 1,
                     st  |-> ProcessWindow(lp.st, buf, lp.win, dc, gain)],
                    buf, dc, gain)

process_and_compute_features(buf, gain, fft_input) ==
    WindowLoop([win |-> 0, st |-> PassStart(fft_input)], buf, DcOffset(buf), gain)

\* ------------------------------------------------------------------------
\* Feature vectors and rolling histories
\* ------------------------------------------------------------------------
\* main.cpp:447-450 and 553-556: evict the oldest entry of a full history,
\* then append
mut_HistoryPush(h, v) ==
    Append(IF Len(h) > HISTORY_SIZE THEN Tail(h) ELSE h, v)

HistoryPush(h, v) ==
    Append(IF Len(h) >= HISTORY_SIZE THEN Tail(h) ELSE h, v)

\* main.cpp:453-461
RollingAvg(h, current_density) ==
    IF h # <<>> THEN SumSeq(h) \div Len(h) ELSE current_density

RECURSIVE SumSqDev(_, _)
SumSqDev(h, mean) ==
    IF h = <<>> THEN 0
    ELSE Mul(h[1] - mean, h[1] - mean) + SumSqDev(Tail(h), mean)

\* main.cpp:559-570
TempStability(h) ==
    IF Len(h) >= 2
    THEN SumSqDev(h, SumSeq(h) \div Len(h)) \div Len(h)
    ELSE 0

\* main.cpp:468-470 and 549-550: the sensor entries of a vector
SensorTemp(mock, last) == IF mock.on THEN mock.temp ELSE last.temp
SensorHum(mock, last)  == IF mock.on THEN mock.hum ELSE last.hum
mut_SensorHour(mock)   == 14 * FX

SensorHour(mock)       == IF mock.on THEN mock.hour ELSE 14 * FX

\* The Summer feature vector (main.cpp:446-480) built over the history h that
\* already holds current_density
SummerFeatures(h, current_density, mock, last, bins) ==
    LET rolling_avg == RollingAvg(h, current_density)
        spike_ratio == DivF(current_density, rolling_avg + EPS)
    IN  [i \in 0..19 |->
            CASE i = 0 -> SensorTemp(mock, last)
              [] i = 1 -> SensorHum(mock, last)
              [] i = 2 -> SensorHour(mock)
              [] i = 3 -> spike_ratio
              [] OTHER -> bins[i]]

\* The Winter feature vector (main.cpp:549-580) built over the history h that
\* already holds the current temperature
WinterFeatures(h, current_density, mock, last, bins) ==
    LET heater_power == bins[6] + bins[7] + bins[8]
    IN  [i \in 0..4 |->
            CASE i = 0 -> SensorTemp(mock, last)
              [] i = 1 -> SensorHum(mock, last)
              [] i = 2 -> TempStability(h)
              [] i = 3 -> heater_power
              [] OTHER -> DivF(heater_power, current_density + EPS)]

\* ------------------------------------------------------------------------
\* Climate sensor
\* ------------------------------------------------------------------------
Clamp(lo, hi, x) == IF x < lo THEN lo ELSE IF x > hi THEN hi ELSE x

\* main.cpp:245-250: the conversion of the two raw 16-bit words
ConvertTemp(t_raw) == -45 * FX + 175 * ((t_raw * FX) \div 65535)
ConvertHum(h_raw)  == Clamp(0, 100 * FX, 100 * ((h_raw * FX) \div 65535))

mut_read_climate(mock, last, s) ==
    IF s.ret = "write_fail"
    THEN [temp |-> 25 * FX, hum |-> 50 * FX, ok |-> FALSE, tag |-> "WARN_SHT"]
    ELSE IF s.ret = "read_fail"
    THEN [temp |-> last.temp, hum |-> last.hum, ok |-> FALSE, tag |-> "NONE"]
    ELSE [temp |-> ConvertTemp(s.t_raw), hum |-> ConvertHum(s.h_raw),
          ok |-> TRUE, tag |-> "SENSOR"]

\* read_climate (main.cpp:218-254).  s is what the I2C transaction does:
\* s.ret is "write_fail" when i2c_write_blocking fails, "read_fail" when
\* i2c_read_blocking fails, "ok" otherwise with the raw words s.t_raw, s.h_raw.
read_climate(mock, last, s) ==
    IF mock.on
    THEN [temp |-> mock.temp, hum |-> mock.hum, ok |-> TRUE, tag |-> "SENSOR_MOCK"]
    ELSE IF s.ret = "write_fail"
    THEN [temp |-> 25 * FX, hum |-> 50 * FX, ok |-> FALSE, tag |-> "WARN_SHT"]
    ELSE IF s.ret = "read_fail"
    THEN [temp |-> last.temp, hum |-> last.hum, ok |-> FALSE, tag |-> "NONE"]
    ELSE [temp |-> ConvertTemp(s.t_raw), hum |-> ConvertHum(s.h_raw),
          ok |-> TRUE, tag |-> "SENSOR"]

\* ------------------------------------------------------------------------
\* Configuration storage (flash_config.h).  A SystemConfig is held as the
\* bytes of its fields: magic and checksum as their four bytes in memory
\* order, a char array as the bytes of the string it holds (the zero bytes
\* after it add nothing to a sum), server_port as a number.  The two padding bytes before
\* checksum are zero in every record.
\* ------------------------------------------------------------------------
\* 0xBEE5CAFE (beewatch-release flash_config.h:33) and 0xBEEFCAFE (firmware
\* flash_config.h:14), least significant byte first
CONFIG_MAGIC == <<254, 202, 229, 190>>
FIRMWARE_CONFIG_MAGIC == <<254, 202, 239, 190>>

Lower ==
    <<"a", "b", "c", "d", "e", "f", "g", "h", "i", "j", "k", "l", "m",
      "n", "o", "p", "q", "r", "s", "t", "u", "v", "w", "x", "y", "z">>

\* The byte of a character of a configuration string
Byte(c) ==
    IF c \in Digits THEN 48 + DigitVal(c)
    ELSE IF c = "." THEN 46
    ELSE IF c = "-" THEN 45
    ELSE 96 + (CHOOSE i \in 1..26 : Lower[i] = c)

Bytes(str) == [i \in 1..Len(str) |-> Byte(str[i])]

DEFAULT_SERVER_IP ==
    Bytes(<<"1", "9", "2", ".", "1", "6", "8", ".", "0", ".", "1", "0", "0">>)
FIRMWARE_DEFAULT_SERVER_IP ==
    Bytes(<<"1", "9", "2", ".", "1", "6", "8", ".", "1", ".", "5", "0">>)
DEFAULT_SERVER_PORT == 8000
DEFAULT_NODE_ID ==
    Bytes(<<"p", "i", "c", "o", "-", "h", "i", "v", "e", "-", "0", "0", "1">>)

\* The four bytes of a uint32_t, least significant first
Word(n) == <<n % 256, (n \div 256) % 256, (n \div 65536) % 256, (n \div 16777216) % 256>>

\* calc_checksum (beewatch-release flash_config.h:41-49): the sum of every
\* byte before the checksum field, in a uint32_t; 152 bytes cannot wrap it
calc_checksum(cfg) ==
    Word(SumSeq(cfg.magic) + SumSeq(cfg.wifi_ssid) + SumSeq(cfg.wifi_pass)
         + SumSeq(cfg.server_ip) + (cfg.server_port % 256) + (cfg.server_port \div 256)
         + SumSeq(cfg.node_id))

\* A record with its checksum field filled in
Sealed(cfg) == [cfg EXCEPT !.checksum = calc_checksum(cfg)]

\* The defaults of load_config (beewatch-release flash_config.h:66-74)
DefaultConfig ==
    Sealed([magic |-> CONFIG_MAGIC, wifi_ssid |-> <<>>, wifi_pass |-> <<>>,
            server_ip |-> DEFAULT_SERVER_IP, server_port |-> DEFAULT_SERVER_PORT,
            node_id |-> DEFAULT_NODE_ID, checksum |-> Word(0)])

\* load_config (beewatch-release flash_config.h:54-76)
load_config(flash_cfg) ==
    IF flash_cfg.magic = CONFIG_MAGIC /\ flash_cfg.checksum = calc_checksum(flash_cfg)
    THEN [cfg |-> flash_cfg, outcome |-> "stored"]
    ELSE [cfg |-> DefaultConfig, outcome |-> "defaults"]

\* The defaults of the firmware build (firmware flash_config.h:35-39); its
\* SystemConfig has no checksum field, the field is zero in the model
FirmwareDefaultConfig ==
    [magic |-> FIRMWARE_CONFIG_MAGIC, wifi_ssid |-> <<>>, wifi_pass |-> <<>>,
     server_ip |-> FIRMWARE_DEFAULT_SERVER_IP, server_port |-> 8000,
     node_id |-> DEFAULT_NODE_ID, checksum |-> Word(0)]

\* load_config of the firmware build (firmware flash_config.h:28-43): the
\* bytes that follow node_id in flash are not part of its record
firmware_load_config(flash_cfg) ==
    IF flash_cfg.magic # FIRMWARE_CONFIG_MAGIC
    THEN [cfg |-> FirmwareDefaultConfig, outcome |-> "defaults"]
    ELSE [cfg |-> [flash_cfg EXCEPT !.checksum = Word(0)], outcome |-> "stored"]

\* save_config of the beewatch-release build (flash_config.h:81-103): the
\* checksum is brought up to date in sys_config, the sector is erased and the
\* record is programmed
mut_save_config(cfg) == cfg

save_config(cfg) == Sealed(cfg)

\* save_config of the firmware build (flash_config.h:45-52) programs
\* FLASH_PAGE_SIZE = 256 bytes from the address of the 152-byte sys_config:
\* after_cfg is what the memory after sys_config holds
firmware_save_config(cfg, after_cfg) == [cfg EXCEPT !.checksum = after_cfg]

\* A sector after flash_range_erase, and sys_config before load_config (a
\* static object)
ErasedFlash ==
    [magic |-> <<255, 255, 255, 255>>, wifi_ssid |-> <<255>>, wifi_pass |-> <<255>>,
     server_ip |-> <<255>>, server_port |-> 65535, node_id |-> <<255>>,
     checksum |-> <<255, 255, 255, 255>>]

ZeroConfig ==
    [magic |-> <<0, 0, 0, 0>>, wifi_ssid |-> <<>>, wifi_pass |-> <<>>, server_ip |-> <<>>,
     server_port |-> 0, node_id |-> <<>>, checksum |-> Word(0)]

\* ------------------------------------------------------------------------
\* State
\* ------------------------------------------------------------------------
VARIABLES
    stdin,              \* characters typed and not yet read by getchar_timeout_us
    cmd_buffer,         \* cmd_buffer[0 .. ptr-1] (main.cpp:674)
    ptr,                \* main.cpp:675
    pc,                 \* "loop": in the control loop; "dsp": in the window loop of a pass
    cur,                \* first character of the command being executed
    win,                \* w, the index of the next window (main.cpp:397)
    dc_offset,          \* main.cpp:385
    pass,               \* filter poles, rms_sum, rms_count, g_fft_input, g_bin_accum
    g_audio_buffer,     \* main.cpp:59
    g_density_history,  \* main.cpp:71
    g_temp_history,     \* main.cpp:72
    g_last,             \* g_last_temp, g_last_hum (main.cpp:75-76)
    g_mock,             \* g_mock_mode, g_mock_temp, g_mock_hum, g_mock_hour (main.cpp:84-87)
    g_gain_compensation,\* main.cpp:100
    g_features_summer,  \* main.cpp:64
    g_features_winter,  \* main.cpp:65
    out,                \* what the command in execution (or the last one) has printed
    climate_ret,        \* what the last I2C transaction did ("none" before any)
    clf_err,            \* whether the last run_classifier call failed
    queue,              \* history: the lines typed whose line end is not yet read
    cur_line,           \* history: the command line last dispatched
    inflight,           \* history: commands dispatched and not yet completed
    dlog,               \* history: densities inserted since the last clear
    tlog,               \* history: temperatures inserted since the last clear
    typed,              \* history: number of lines typed
    varied,             \* history: number of unusual deliveries of the environment
    twin_differs,       \* history: the twin's climate reading differs from the real one
    twin_last,          \* history: g_last of the same command under another sensor reading
    twin_audio,         \* history: the capture of the same command in its twin execution
    twin_summer,        \* history: the Summer vector the twin execution builds
    twin_winter,        \* history: the Winter vector the twin execution builds
    net,                \* the network client's request (phase, elapsed time, received bytes)
    flash,              \* the configuration record in the last sector of flash
    sys_config,         \* the configuration in RAM
    cfg_status,         \* history: the build that ran load_config last and what it chose
    saved               \* history: whether save_config has run, sys_config as it saved it,
                        \* and whether load_config has run since

loopVars == <<stdin, cmd_buffer, ptr, pc, cur, queue, cur_line, inflight, typed, varied>>
dspVars  == <<win, dc_offset, pass, g_audio_buffer>>
histVars == <<g_density_history, g_temp_history, dlog, tlog>>
cfgVars  == <<g_mock, g_gain_compensation>>
featVars == <<g_features_summer, g_features_winter, clf_err, twin_audio, twin_summer,
              twin_winter>>
sensVars == <<g_last, climate_ret, twin_last, twin_differs>>
cfgStore == <<flash, sys_config, cfg_status, saved>>

vars == <<stdin, cmd_buffer, ptr, pc, cur, win, dc_offset, pass, g_audio_buffer,
          g_density_history, g_temp_history, g_last, g_mock, g_gain_compensation,
          g_features_summer, g_features_winter, out, climate_ret, clf_err,
          queue, cur_line, inflight, dlog, tlog, typed, varied, twin_differs, twin_last,
          twin_audio,
          twin_summer, twin_winter, net, flash, sys_config, cfg_status, saved>>

EOL == {"\n", "\r"}

\* cmd_buffer holds at most 63 characters and the terminator (main.cpp:786)
CMD_MAX == 63

ZeroInput == [i \in 0..(FFT_SIZE - 1) |-> 0]

NetIdle ==
    [phase |-> "idle", elapsed |-> 0, rx |-> 0, result |-> "none", cause |-> "none",
     aborted |-> FALSE, calls |-> 0]

Init ==
    /\ stdin = <<>>
    /\ cmd_buffer = <<>>
    /\ ptr = 0
    /\ pc = "loop"
    /\ cur = "NUL"
    /\ win = 0
    /\ dc_offset = 0
    /\ pass = PassStart(ZeroInput)
    /\ g_audio_buffer = [i \in 1..AUDIO_BUFFER_SIZE |-> 0]
    /\ g_density_history = <<>>
    /\ g_temp_history = <<>>
    /\ g_last = [temp |-> 0, hum |-> 0]
    /\ g_mock = [on |-> FALSE, temp |-> 25 * FX, hum |-> 50 * FX, hour |-> 14 * FX]
    /\ g_gain_compensation = 150
    /\ g_features_summer = [i \in 0..19 |-> 0]
    /\ g_features_winter = [i \in 0..4 |-> 0]
    /\ out = <<>>
    /\ climate_ret = "none"
    /\ clf_err = FALSE
    /\ queue = <<>>
    /\ cur_line = <<>>
    /\ inflight = 0
    /\ dlog = <<>>
    /\ tlog = <<>>
    /\ typed = 0
    /\ varied = 0
    /\ twin_differs = FALSE
    /\ twin_last = [temp |-> 0, hum |-> 0]
    /\ twin_audio = [i \in 1..AUDIO_BUFFER_SIZE |-> 0]
    /\ twin_summer = [i \in 0..19 |-> 0]
    /\ twin_winter = [i \in 0..4 |-> 0]
    /\ net = NetIdle
    /\ flash = ErasedFlash
    /\ sys_config = ZeroConfig
    /\ cfg_status = [build |-> "none", outcome |-> "none"]
    /\ saved = [done |-> FALSE, reloaded |-> FALSE, cfg |-> ZeroConfig]

\* ------------------------------------------------------------------------
\* The environment of a specification: E.lines are the lines a user may
\* type, E.buffers what the ADC may deliver, E.sensors what the I2C
\* transaction may do, E.clfs what run_classifier may return.
\* ------------------------------------------------------------------------
CountEOL(s) == Cardinality({i \in 1..Len(s) : s[i] \in EOL})

\* A user types one line and its line end; a user of an environment without
\* typeAhead types only when the loop waits for input.
Type(E) ==
    /\ typed < E.maxLines
    /\ CountEOL(stdin) < E.maxPending
    /\ E.typeAhead \/ (pc = "loop" /\ stdin = <<>>)
    /\ \E line \in E.lines :
          /\ (line # <<>> /\ line[1] \in {"s", "w"})
                => Len(dlog) + Len(tlog) + Len(queue) + inflight < E.maxLog
          /\ stdin' = stdin \o line \o <<"\n">>
          /\ queue' = Append(queue, line)
    /\ typed' = IF E.countLines THEN typed + 1 ELSE typed
    /\ UNCHANGED <<cmd_buffer, ptr, pc, cur, cur_line, inflight, varied, dspVars,
                   histVars, cfgVars, featVars, sensVars, out, net, cfgStore>>

\* main.cpp:785-790: a character that is not a line end
mut_ReadChar ==
    /\ pc = "loop"
    /\ stdin # <<>>
    /\ Head(stdin) \notin EOL
    /\ stdin' = Tail(stdin)
    /\ IF ptr <= CMD_MAX
       THEN cmd_buffer' = Append(cmd_buffer, Head(stdin)) /\ ptr' = ptr + 1
       ELSE UNCHANGED <<cmd_buffer, ptr>>
    /\ UNCHANGED <<pc, cur, queue, cur_line, inflight, typed, varied, dspVars, histVars,
                   cfgVars, featVars, sensVars, out, net, cfgStore>>

ReadChar ==
    /\ pc = "loop"
    /\ stdin # <<>>
    /\ Head(stdin) \notin EOL
    /\ stdin' = Tail(stdin)
    /\ IF ptr < CMD_MAX
       THEN cmd_buffer' = Append(cmd_buffer, Head(stdin)) /\ ptr' = ptr + 1
       ELSE UNCHANGED <<cmd_buffer, ptr>>
    /\ UNCHANGED <<pc, cur, queue, cur_line, inflight, typed, varied, dspVars, histVars,
                   cfgVars, featVars, sensVars, out, net, cfgStore>>

\* main.cpp:681-686: a line end is read and the buffer holds a command cmd
AtCommand(cmds) ==
    /\ pc = "loop"
    /\ stdin # <<>>
    /\ Head(stdin) \in EOL
    /\ ptr > 0
    /\ cmd_buffer[1] \in cmds

\* The loop's bookkeeping of a dispatched line: the line end is consumed
Dispatched ==
    /\ stdin' = Tail(stdin)
    /\ queue' = Tail(queue)
    /\ cur_line' = cmd_buffer
    /\ cur' = cmd_buffer[1]
    /\ typed' = typed

\* main.cpp:783: the end of a command that ran within one step
mut_CompletedNow ==
    /\ Dispatched
    /\ UNCHANGED <<cmd_buffer, ptr>>
    /\ pc' = "loop"
    /\ inflight' = inflight

CompletedNow ==
    /\ Dispatched
    /\ ptr' = 0
    /\ cmd_buffer' = <<>>
    /\ pc' = "loop"
    /\ inflight' = inflight

\* main.cpp:681-685, 783: a line end with an empty buffer executes nothing
EmptyLine ==
    /\ pc = "loop"
    /\ stdin # <<>>
    /\ Head(stdin) \in EOL
    /\ ptr = 0
    /\ stdin' = Tail(stdin)
    /\ queue' = Tail(queue)
    /\ ptr' = 0
    /\ UNCHANGED <<cmd_buffer, pc, cur, cur_line, inflight, typed, varied, dspVars,
                   histVars, cfgVars, featVars, sensVars, out, net, cfgStore>>

mut_Completed ==
    /\ ptr' = 0
    /\ cmd_buffer' = <<>>
    /\ pc' = IF clf_err' THEN "halt" ELSE "loop"
    /\ inflight' = inflight - 1
    /\ UNCHANGED <<stdin, cur, queue, cur_line, typed, varied>>

\* The end of a command that ran a processing pass (main.cpp:783)
Completed ==
    /\ ptr' = 0
    /\ cmd_buffer' = <<>>
    /\ pc' = "loop"
    /\ inflight' = inflight - 1
    /\ UNCHANGED <<stdin, cur, queue, cur_line, typed, varied>>

Tags(t) == IF t = "NONE" THEN <<>> ELSE <<t>>

\* read_climate as called by a command; s2 is the reading of the twin.
DoReadClimate(s, s2) ==
    LET r  == read_climate(g_mock, g_last, s)
        r2 == read_climate(g_mock, g_last, s2)
    IN  /\ g_last' = [temp |-> r.temp, hum |-> r.hum]
        /\ climate_ret' = IF g_mock.on THEN "mock" ELSE s.ret
        /\ twin_last' = [temp |-> r2.temp, hum |-> r2.hum]
        /\ twin_differs' = (s2 # s)

TwinSensors(E, s) == IF E.twin THEN E.sensors ELSE {s}

\* The deliveries of s and buf that are not the environment's usual ones
Unusual(E, s, buf) ==
    (IF buf # E.silence THEN 1 ELSE 0) + (IF s # E.usual THEN 1 ELSE 0)

\* The bound of an environment on what it delivers: in a run at most
\* E.maxVaried captures that are not silence or climate readings that are
\* not the usual one
Delivers(E, s, buf) ==
    /\ s \in E.sensors
    /\ buf \in E.buffers
    /\ E.countVaried => varied + Unusual(E, s, buf) <= E.maxVaried
    /\ varied' = IF E.countVaried THEN varied + Unusual(E, s, buf) ELSE varied

\* read_climate(); capture_audio(); and process_and_compute_features() up to
\* its window loop (main.cpp:691-694, 372-395)
BeginPass(E, cmds) ==
    /\ AtCommand(cmds)
    /\ Dispatched
    /\ \E s \in E.sensors, buf \in E.buffers :
         \E s2 \in TwinSensors(E, s) :
          /\ Delivers(E, s, buf)
          /\ DoReadClimate(s, s2)
          /\ g_audio_buffer' = buf
          /\ dc_offset' = DcOffset(buf)
          /\ out' = Tags(read_climate(g_mock, g_last, s).tag) \o <<"REC", "DSP">>
    /\ pass' = PassStart(pass.fft_input)
    /\ win' = 0
    /\ pc' = "dsp"
    /\ inflight' = inflight + 1
    /\ UNCHANGED <<cmd_buffer, ptr, histVars, cfgVars, featVars, net, cfgStore>>

\* 's' (main.cpp:689-697)
CmdSummer(E) == BeginPass(E, {"s", "S"})

\* 'w' (main.cpp:699-707)
CmdWinter(E) == BeginPass(E, {"w", "W"})

\* 'd' (main.cpp:714-717, 593-597)
CmdDebug(E) == BeginPass(E, {"d", "D"})

\* One window of the pass (main.cpp:397-424)
WindowStep ==
    /\ pc = "dsp"
    /\ win < num_windows
    /\ pass' = ProcessWindow(pass, g_audio_buffer, win, dc_offset, g_gain_compensation)
    /\ win' = win + 1
    /\ UNCHANGED <<loopVars, dc_offset, g_audio_buffer, histVars, cfgVars, featVars,
                   sensVars, out, net, cfgStore>>

\* run_summer_inference up to the classifier call (main.cpp:443-487): the new
\* density history and the feature vector
mut_run_summer_inference(h0, current_density, mock, last, bins) ==
    LET h == HistoryPush(h0, current_density)
    IN  [history  |-> h,
         features |-> SummerFeatures(h0, current_density, mock, last, bins)]

run_summer_inference(h0, current_density, mock, last, bins) ==
    LET h == HistoryPush(h0, current_density)
    IN  [history  |-> h,
         features |-> SummerFeatures(h, current_density, mock, last, bins)]

\* run_winter_inference up to the classifier call (main.cpp:546-583)
mut_run_winter_inference(h0, current_density, mock, last, bins) ==
    LET h == HistoryPush(h0, SensorTemp(mock, last))
    IN  [history  |-> h,
         features |-> WinterFeatures(h0, current_density, mock, last, bins)]

run_winter_inference(h0, current_density, mock, last, bins) ==
    LET h == HistoryPush(h0, SensorTemp(mock, last))
    IN  [history  |-> h,
         features |-> WinterFeatures(h, current_density, mock, last, bins)]

\* The vectors the same command builds from the same mock values, gain and
\* histories when the climate sensor has read twin_last and the ADC has
\* delivered b2
TwinSummer(b2) ==
    LET p2 == process_and_compute_features(b2, g_gain_compensation, pass.fft_input)
    IN  run_summer_inference(g_density_history, PassDensity(p2), g_mock, twin_last,
                             PassBins(p2)).features

TwinWinter(b2) ==
    LET p2 == process_and_compute_features(b2, g_gain_compensation, pass.fft_input)
    IN  run_winter_inference(g_temp_history, PassDensity(p2), g_mock, twin_last,
                             PassBins(p2)).features

\* The end of the pass and run_summer_inference (main.cpp:426-438, 443-544)
FinishSummer(E) ==
    /\ pc = "dsp"
    /\ win = num_windows
    /\ cur \in {"s", "S"}
    /\ LET density == PassDensity(pass)
           r == run_summer_inference(g_density_history, density, g_mock, g_last,
                                     PassBins(pass))
       IN  /\ g_density_history' = r.history
           /\ g_features_summer' = r.features
           /\ dlog' = Append(dlog, density)
    /\ pass' = [pass EXCEPT !.bin_accum = PassBins(pass)]
    /\ \E c \in E.clfs :
          /\ clf_err' = c.err
          /\ out' = out \o <<"AI">> \o
                    (IF c.err THEN <<"ERR_CLASSIFIER">> ELSE <<"HIVE_STATUS", "JSON_OUT">>)
    /\ IF E.twin
       THEN \E b2 \in E.buffers : twin_audio' = b2 /\ twin_summer' = TwinSummer(b2)
       ELSE /\ twin_audio' = g_audio_buffer
            /\ twin_summer' = run_summer_inference(g_density_history, PassDensity(pass),
                                                    g_mock, twin_last, PassBins(pass)).features
    /\ Completed
    /\ UNCHANGED <<win, dc_offset, g_audio_buffer, g_temp_history, tlog, cfgVars,
                   g_features_winter, twin_winter, sensVars, net, cfgStore>>

\* The end of the pass and run_winter_inference (main.cpp:426-438, 546-590);
\* the value run_classifier returns is not looked at (main.cpp:586)
FinishWinter(E) ==
    /\ pc = "dsp"
    /\ win = num_windows
    /\ cur \in {"w", "W"}
    /\ LET density == PassDensity(pass)
           r == run_winter_inference(g_temp_history, density, g_mock, g_last,
                                     PassBins(pass))
       IN  /\ g_temp_history' = r.history
           /\ g_features_winter' = r.features
           /\ tlog' = Append(tlog, SensorTemp(g_mock, g_last))
    /\ pass' = [pass EXCEPT !.bin_accum = PassBins(pass)]
    /\ \E c \in E.clfs :
          /\ clf_err' = c.err
          /\ out' = out \o <<"AI", "INF">>
    /\ IF E.twin
       THEN \E b2 \in E.buffers : twin_audio' = b2 /\ twin_winter' = TwinWinter(b2)
       ELSE /\ twin_audio' = g_audio_buffer
            /\ twin_winter' = run_winter_inference(g_temp_history, PassDensity(pass),
                                                    g_mock, twin_last, PassBins(pass)).features
    /\ Completed
    /\ UNCHANGED <<win, dc_offset, g_audio_buffer, g_density_history, dlog, cfgVars,
                   g_features_summer, twin_summer, sensVars, net, cfgStore>>

\* The end of the pass and the dump of debug_features (main.cpp:597-615)
mut_FinishDebug ==
    /\ pc = "dsp"
    /\ win = num_windows
    /\ cur \in {"d", "D"}
    /\ pass' = [pass EXCEPT !.bin_accum = PassBins(pass)]
    /\ out' = out \o <<"DEBUG">>
    /\ Completed
    /\ g_density_history' = HistoryPush(g_density_history, PassDensity(pass))
    /\ UNCHANGED <<win, dc_offset, g_audio_buffer, g_temp_history, dlog, tlog, cfgVars,
                   featVars, sensVars, net, cfgStore>>

FinishDebug ==
    /\ pc = "dsp"
    /\ win = num_windows
    /\ cur \in {"d", "D"}
    /\ pass' = [pass EXCEPT !.bin_accum = PassBins(pass)]
    /\ out' = out \o <<"DEBUG">>
    /\ Completed
    /\ UNCHANGED <<win, dc_offset, g_audio_buffer, histVars, cfgVars, featVars,
                   sensVars, net, cfgStore>>

\* 't' (main.cpp:709-712)
CmdClimate(E) ==
    /\ AtCommand({"t", "T"})
    /\ CompletedNow
    /\ \E s \in E.sensors :
          /\ Delivers(E, s, E.silence)
          /\ DoReadClimate(s, s)
          /\ out' = Tags(read_climate(g_mock, g_last, s).tag)
    /\ UNCHANGED <<dspVars, histVars, cfgVars, featVars, net, cfgStore>>

\* stream_audio (main.cpp:289-297): the number of samples captured
StreamSamples(seconds) ==
    LET secs    == IF seconds <= 0 \/ seconds > 6 THEN 6 ELSE seconds
        samples == secs * SAMPLE_RATE_HZ
    IN  IF samples > AUDIO_BUFFER_SIZE THEN AUDIO_BUFFER_SIZE ELSE samples

\* 'a' (main.cpp:719-729, 289-356)
CmdStream(E) ==
    /\ AtCommand({"a", "A"})
    /\ CompletedNow
    /\ LET secs    == IF ptr > 1 THEN Atoi(Tail(cmd_buffer)) ELSE 6
           samples == StreamSamples(secs)
       IN  \E buf \in E.buffers :
              /\ Delivers(E, E.usual, buf)
              /\ g_audio_buffer' = [i \in 1..AUDIO_BUFFER_SIZE |->
                                       IF i <= samples THEN buf[i] ELSE g_audio_buffer[i]]
    /\ out' = <<"STREAM">>
    /\ UNCHANGED <<win, dc_offset, pass, histVars, cfgVars, featVars, sensVars, net, cfgStore>>

\* 'm' (main.cpp:731-734, 619-629)
CmdToggleMock ==
    /\ AtCommand({"m", "M"})
    /\ CompletedNow
    /\ varied' = varied
    /\ g_mock' = [g_mock EXCEPT !.on = ~g_mock.on]
    /\ out' = IF g_mock.on THEN <<"MOCK_DISABLED">> ELSE <<"MOCK_ENABLED">>
    /\ UNCHANGED <<dspVars, histVars, g_gain_compensation, featVars, sensVars, net, cfgStore>>

\* 'c' (main.cpp:736-739, 641-645)
CmdClear ==
    /\ AtCommand({"c", "C"})
    /\ CompletedNow
    /\ varied' = varied
    /\ g_density_history' = <<>>
    /\ g_temp_history' = <<>>
    /\ dlog' = <<>>
    /\ tlog' = <<>>
    /\ out' = <<"HISTORY_CLEARED">>
    /\ UNCHANGED <<dspVars, cfgVars, featVars, sensVars, net, cfgStore>>

\* 'p' (main.cpp:741-744)
CmdPing ==
    /\ AtCommand({"p", "P"})
    /\ CompletedNow
    /\ varied' = varied
    /\ out' = <<"PONG">>
    /\ UNCHANGED <<dspVars, histVars, cfgVars, featVars, sensVars, net, cfgStore>>

\* 'v' (main.cpp:746-757, 632-638)
CmdSetMock ==
    /\ AtCommand({"v", "V"})
    /\ CompletedNow
    /\ varied' = varied
    /\ LET r == Sscanf3(Tail(cmd_buffer))
       IN  IF ptr > 1 /\ r.n = 3
           THEN /\ g_mock' = [g_mock EXCEPT !.temp = r.v[1], !.hum = r.v[2], !.hour = r.v[3]]
                /\ out' = <<"MOCK_VALUES">>
           ELSE /\ g_mock' = g_mock
                /\ out' = IF ptr > 1 THEN <<"USAGE_V">> ELSE <<>>
    /\ UNCHANGED <<dspVars, histVars, g_gain_compensation, featVars, sensVars, net, cfgStore>>

\* The test of a new gain (main.cpp:764)
mut_GainAccepted(new_gain) == new_gain > 0 /\ new_gain < 2 * FX

GainAccepted(new_gain) == new_gain > 0 /\ new_gain <= 2 * FX

\* 'g' (main.cpp:759-774)
CmdGain ==
    /\ AtCommand({"g", "G"})
    /\ CompletedNow
    /\ varied' = varied
    /\ LET new_gain == Atof(Tail(cmd_buffer))
       IN  IF ptr > 1
           THEN IF GainAccepted(new_gain)
                THEN g_gain_compensation' = new_gain /\ out' = <<"GAIN_SET">>
                ELSE g_gain_compensation' = g_gain_compensation /\ out' = <<"GAIN_RANGE">>
           ELSE g_gain_compensation' = g_gain_compensation /\ out' = <<"GAIN_SHOW">>
    /\ UNCHANGED <<dspVars, histVars, g_mock, featVars, sensVars, net, cfgStore>>

KnownCommands ==
    {"s", "S", "w", "W", "t", "T", "d", "D", "a", "A", "m", "M", "c", "C",
     "p", "P", "v", "V", "g", "G"}

\* default: (main.cpp:776-779)
CmdUnknown ==
    /\ pc = "loop"
    /\ stdin # <<>>
    /\ Head(stdin) \in EOL
    /\ ptr > 0
    /\ cmd_buffer[1] \notin KnownCommands
    /\ CompletedNow
    /\ varied' = varied
    /\ out' = <<"UNKNOWN">>
    /\ UNCHANGED <<dspVars, histVars, cfgVars, featVars, sensVars, net, cfgStore>>

\* ------------------------------------------------------------------------
\* Environments and specifications
\* ------------------------------------------------------------------------
\* What the ADC may deliver: silence, one loud sample at the start, one loud
\* sample at the very end, a step in the middle
AudioZero  == [i \in 1..AUDIO_BUFFER_SIZE |-> 0]
AudioFirst == [i \in 1..AUDIO_BUFFER_SIZE |-> IF i = 1 THEN 4095 ELSE 0]
AudioLast  == [i \in 1..AUDIO_BUFFER_SIZE |-> IF i = AUDIO_BUFFER_SIZE THEN 4095 ELSE 0]
AudioStep  == [i \in 1..AUDIO_BUFFER_SIZE |-> IF 2 * i > AUDIO_BUFFER_SIZE THEN 4095 ELSE 0]

\* What the I2C transaction may do: a reading of 35.0 C / 40 %, a failed
\* command write, a failed data read
SensorOk        == [ret |-> "ok", t_raw |-> 29959, h_raw |-> 26214]
SensorCold      == [ret |-> "ok", t_raw |-> 18724, h_raw |-> 52428]
SensorWriteFail == [ret |-> "write_fail", t_raw |-> 0, h_raw |-> 0]
SensorReadFail  == [ret |-> "read_fail", t_raw |-> 0, h_raw |-> 0]

ClfOk   == [err |-> FALSE]
ClfFail == [err |-> TRUE]

MaxLines == 2
MaxPending == 2
MaxLog == 13
MaxVaried == 1

MainLines ==
    { <<"s">>, <<"w">>, <<"t">>, <<"d">>, <<"a", "1">>, <<"m">>, <<"c">>, <<"p">>,
      <<"v", "3", "0", ",", "6", "0", ",", "9">>, <<"v", "3", "0", " ", "6", "0">>,
      <<"g", "2", ".", "0">>, <<"g", "3", ".", "0">>, <<"g", "0">>, <<"g", "-", "1">>,
      <<"g", "0", ".", "5">>, <<"g", "x">>, <<"g">>, <<"x">>, <<>> }

EnvMain ==
    [typeAhead |-> TRUE, lines |-> MainLines, maxLines |-> MaxLines, maxPending |-> MaxPending,
     maxLog |-> MaxLog, countLines |-> TRUE,
     buffers |-> {AudioZero, AudioFirst},
     sensors |-> {SensorOk, SensorWriteFail, SensorReadFail},
     silence |-> AudioZero, usual |-> SensorOk, maxVaried |-> 0, countVaried |-> FALSE,
     clfs |-> {ClfOk, ClfFail}, twin |-> FALSE]

Next ==
    \/ Type(EnvMain)
    \/ ReadChar
    \/ EmptyLine
    \/ CmdSummer(EnvMain)
    \/ CmdWinter(EnvMain)
    \/ CmdDebug(EnvMain)
    \/ WindowStep
    \/ FinishSummer(EnvMain)
    \/ FinishWinter(EnvMain)
    \/ FinishDebug
    \/ CmdClimate(EnvMain)
    \/ CmdStream(EnvMain)
    \/ CmdToggleMock
    \/ CmdClear
    \/ CmdPing
    \/ CmdSetMock
    \/ CmdGain
    \/ CmdUnknown

Spec == Init /\ [][Next]_vars

\* The histories: Summer, Winter and ClearHistory commands typed one at a
\* time, with two possible captures and two possible climate readings, until
\* MaxLog values have been inserted since the last clear; at most MaxVaried
\* captures or readings of a run are not the usual ones
HistLines == { <<"s">>, <<"w">>, <<"c">> }

EnvHist ==
    [typeAhead |-> FALSE, lines |-> HistLines, maxLines |-> 1, maxPending |-> 1,
     maxLog |-> MaxLog, countLines |-> FALSE,
     buffers |-> {AudioZero, AudioFirst},
     sensors |-> {SensorOk, SensorCold},
     silence |-> AudioZero, usual |-> SensorOk, maxVaried |-> MaxVaried,
     countVaried |-> TRUE,
     clfs |-> {ClfOk}, twin |-> FALSE]

NextHist ==
    \/ Type(EnvHist)
    \/ ReadChar
    \/ CmdSummer(EnvHist)
    \/ CmdWinter(EnvHist)
    \/ WindowStep
    \/ FinishSummer(EnvHist)
    \/ FinishWinter(EnvHist)
    \/ CmdClear

SpecHist == Init /\ [][NextHist]_vars

\* Mock mode: each inference is compared with its twin, the same command
\* run from the same state under another climate reading and another capture
MockLines == { <<"m">>, <<"s">>, <<"w">> }

EnvMock ==
    [typeAhead |-> FALSE, lines |-> MockLines, maxLines |-> MaxLines, maxPending |-> MaxPending,
     maxLog |-> MaxLog, countLines |-> TRUE,
     buffers |-> {AudioZero, AudioFirst},
     sensors |-> {SensorOk, SensorCold},
     silence |-> AudioZero, usual |-> SensorOk, maxVaried |-> 0, countVaried |-> FALSE,
     clfs |-> {ClfOk}, twin |-> TRUE]

NextMock ==
    \/ Type(EnvMock)
    \/ ReadChar
    \/ CmdToggleMock
    \/ CmdSummer(EnvMock)
    \/ CmdWinter(EnvMock)
    \/ WindowStep
    \/ FinishSummer(EnvMock)
    \/ FinishWinter(EnvMock)

SpecMock == Init /\ [][NextMock]_vars

\* Progress of the control loop: commands of every outcome (sensor failure,
\* classifier failure, rejected gain, rejected mock values, unknown command)
LiveLines ==
    { <<"s">>, <<"w">>, <<"t">>, <<"p">>, <<"x">>, <<"g", "3", ".", "0">>,
      <<"v", "3", "0", " ", "6", "0">> }

EnvLive ==
    [typeAhead |-> TRUE, lines |-> LiveLines, maxLines |-> MaxLines, maxPending |-> MaxPending,
     maxLog |-> MaxLog, countLines |-> TRUE,
     buffers |-> {AudioZero, AudioFirst},
     sensors |-> {SensorOk, SensorWriteFail, SensorReadFail},
     silence |-> AudioZero, usual |-> SensorOk, maxVaried |-> 0, countVaried |-> FALSE,
     clfs |-> {ClfOk, ClfFail}, twin |-> FALSE]

\* The steps of the firmware's while (true) loop (main.cpp:677-792)
LoopLive ==
    \/ ReadChar
    \/ CmdSummer(EnvLive)
    \/ CmdWinter(EnvLive)
    \/ WindowStep
    \/ FinishSummer(EnvLive)
    \/ FinishWinter(EnvLive)
    \/ CmdClimate(EnvLive)
    \/ CmdPing
    \/ CmdSetMock
    \/ CmdGain
    \/ CmdUnknown

NextLive == Type(EnvLive) \/ LoopLive

\* A step of the loop is possible: a pass is under way, or a character waits
\* (getchar_timeout_us at main.cpp:678 returns it)
LoopReady == pc = "dsp" \/ (pc = "loop" /\ stdin # <<>>)

\* The loop never stops on its own: it is the only thread and every call it
\* makes returns.  This is WF_vars(LoopLive), weak fairness of the loop's
\* steps, with ENABLED <<LoopLive>>_vars written out as LoopReady.
LoopFair == []<>(~LoopReady) \/ []<><<LoopLive>>_vars

FairSpec == Init /\ [][NextLive]_vars /\ LoopFair

\* ------------------------------------------------------------------------
\* The network client's perform_request: a new connection per call, the
\* request issued on connect, then a polled wait that ends when the peer
\* closes, on a transport error, or at the timeout
\* ------------------------------------------------------------------------
HTTP_TIMEOUT_MS == 3000

\* The time one poll of the transport takes, the sizes of the pieces a
\* response arrives in, the longest response and the number of calls
PollMs == 500
RxChunks == {1, 10}
MaxRx == 20
MaxCalls == 2

progVars == <<loopVars, dspVars, histVars, cfgVars, featVars, sensVars, out>>

Waiting == net.phase \in {"connecting", "open"}

\* The wait loop still runs: nothing has ended the call, the time is not up
Polling == Waiting /\ net.elapsed < HTTP_TIMEOUT_MS

\* The end of a call: back to the caller with its result
NetReturn(result, cause, aborted) ==
    net' = [net EXCEPT !.phase = "idle", !.result = result, !.cause = cause,
                       !.aborted = aborted]

\* perform_request is called: a new connection is opened
NetStart ==
    /\ net.phase = "idle"
    /\ net.calls < MaxCalls
    /\ net' = [phase |-> "connecting", elapsed |-> 0, rx |-> 0, result |-> "none",
               cause |-> "none", aborted |-> FALSE, calls |-> net.calls + 1]
    /\ UNCHANGED <<progVars, cfgStore>>

\* connect callback: the request is issued
NetConnected ==
    /\ Polling
    /\ net.phase = "connecting"
    /\ net' = [net EXCEPT !.phase = "open"]
    /\ UNCHANGED <<progVars, cfgStore>>

\* receive callback: response bytes are buffered
NetRecv ==
    /\ Polling
    /\ net.phase = "open"
    /\ \E n \in RxChunks :
          /\ net.rx + n <= MaxRx
          /\ net' = [net EXCEPT !.rx = net.rx + n]
    /\ UNCHANGED <<progVars, cfgStore>>

\* the peer closes the connection: success, response buffered
NetPeerClose ==
    /\ Polling
    /\ net.phase = "open"
    /\ NetReturn("success", "closed", FALSE)
    /\ UNCHANGED <<progVars, cfgStore>>

\* error callback: failure, the connection is aborted
NetError ==
    /\ Polling
    /\ NetReturn("failure", "error", TRUE)
    /\ UNCHANGED <<progVars, cfgStore>>

\* one poll of the transport with nothing to deliver
NetPoll ==
    /\ Polling
    /\ net' = [net EXCEPT !.elapsed = net.elapsed + PollMs]
    /\ UNCHANGED <<progVars, cfgStore>>

\* the timeout policy: success if any response byte was received
mut_TimeoutResult(rx) == "failure"

TimeoutResult(rx) == IF rx > 0 THEN "success" ELSE "failure"

\* the wait has reached the timeout: the connection is aborted
NetTimeout ==
    /\ Waiting
    /\ net.elapsed >= HTTP_TIMEOUT_MS
    /\ NetReturn(TimeoutResult(net.rx), "timeout", TRUE)
    /\ UNCHANGED <<progVars, cfgStore>>

NextNet ==
    \/ NetStart
    \/ NetConnected
    \/ NetRecv
    \/ NetPeerClose
    \/ NetError
    \/ NetPoll
    \/ NetTimeout

SpecNet == Init /\ [][NextNet]_vars

\* ------------------------------------------------------------------------
\* Configuration storage at boot: what the last sector of flash may hold,
\* and load_config of either build
\* ------------------------------------------------------------------------
\* The records a sector may hold: every choice of magic and fields, with the
\* checksum of its bytes, with the checksum of a record that differs in one
\* byte, or with no checksum
StoredBodies ==
    { [magic |-> m, wifi_ssid |-> ssid, wifi_pass |-> <<>>, server_ip |-> ip,
       server_port |-> port, node_id |-> DEFAULT_NODE_ID, checksum |-> Word(0)] :
        m \in {CONFIG_MAGIC, FIRMWARE_CONFIG_MAGIC, <<255, 255, 255, 255>>},
        ssid \in {<<>>, Bytes(<<"h", "i", "v", "e">>)},
        ip \in {DEFAULT_SERVER_IP, FIRMWARE_DEFAULT_SERVER_IP},
        port \in {8000, 8080} }

\* The checksum fields a stored record may carry
StoredSums(body) ==
    {calc_checksum(body),
     calc_checksum([body EXCEPT !.server_port = body.server_port + 1]),
     Word(0)}

FlashImages ==
    {ErasedFlash}
    \cup UNION { { [body EXCEPT !.checksum = sum] : sum \in StoredSums(body) } :
                   body \in StoredBodies }

\* Power-on: the sector holds some record, sys_config is a zeroed static
PowerOn ==
    /\ cfg_status.build = "none"
    /\ flash = ErasedFlash
    /\ \E img \in FlashImages : flash' = img
    /\ UNCHANGED <<sys_config, cfg_status, saved, progVars, net>>

\* load_config of the beewatch-release build, called once at boot
LoadConfig ==
    /\ cfg_status.build \in {"none", "release"}
    /\ cfg_status.outcome = "none"
    /\ LET r == load_config(flash)
       IN  /\ sys_config' = r.cfg
           /\ cfg_status' = [build |-> "release", outcome |-> r.outcome]
    /\ saved' = [saved EXCEPT !.reloaded = saved.done]
    /\ UNCHANGED <<flash, progVars, net>>

\* load_config of the firmware build, called once at boot
FirmwareLoadConfig ==
    /\ cfg_status.build \in {"none", "firmware"}
    /\ cfg_status.outcome = "none"
    /\ LET r == firmware_load_config(flash)
       IN  /\ sys_config' = r.cfg
           /\ cfg_status' = [build |-> "firmware", outcome |-> r.outcome]
    /\ saved' = [saved EXCEPT !.reloaded = saved.done]
    /\ UNCHANGED <<flash, progVars, net>>

NextFlash ==
    \/ PowerOn
    \/ LoadConfig
    \/ FirmwareLoadConfig

SpecFlash == Init /\ [][NextFlash]_vars

\* ------------------------------------------------------------------------
\* Constant captures: Summer inferences in and out of mock mode over silent,
\* constant and non-constant captures, at three gains, in any order
\* ------------------------------------------------------------------------
AudioConst == [i \in 1..AUDIO_BUFFER_SIZE |-> 2048]
AudioFull  == [i \in 1..AUDIO_BUFFER_SIZE |-> 4095]

MaxRuns == 3

ConstLines == { <<"m">>, <<"s">>, <<"g", "2", ".", "0">>, <<"g", "0", ".", "5">> }

EnvConst ==
    [typeAhead |-> FALSE, lines |-> ConstLines, maxLines |-> 1, maxPending |-> 1,
     maxLog |-> MaxRuns, countLines |-> FALSE,
     buffers |-> {AudioZero, AudioConst, AudioFull, AudioFirst},
     sensors |-> {SensorOk},
     silence |-> AudioZero, usual |-> SensorOk, maxVaried |-> 0, countVaried |-> FALSE,
     clfs |-> {ClfOk}, twin |-> FALSE]

NextConst ==
    \/ Type(EnvConst)
    \/ ReadChar
    \/ CmdToggleMock
    \/ CmdGain
    \/ CmdSummer(EnvConst)
    \/ WindowStep
    \/ FinishSummer(EnvConst)

SpecConst == Init /\ [][NextConst]_vars

\* ------------------------------------------------------------------------
\* Mock values: set-mock-values lines, well formed and malformed, and toggles
\* of the mock flag, typed one at a time
\* ------------------------------------------------------------------------
\* The lines, as their text reads: whether the argument is three numbers
\* separated by commas, and the numbers
MockValueLines ==
    { [line |-> <<"v", "3", "0", ",", "6", "0", ",", "9">>, three |-> TRUE,
       values |-> <<30 * FX, 60 * FX, 9 * FX>>],
      [line |-> <<"V", "1", ",", "2", ",", "3">>, three |-> TRUE,
       values |-> <<1 * FX, 2 * FX, 3 * FX>>],
      [line |-> <<"v", "3", "0", " ", "6", "0">>, three |-> FALSE, values |-> <<>>],
      [line |-> <<"v", "3", "0", ",", "6", "0">>, three |-> FALSE, values |-> <<>>],
      [line |-> <<"v", "7", ",", ",", "8">>, three |-> FALSE, values |-> <<>>],
      [line |-> <<"v", "x">>, three |-> FALSE, values |-> <<>>],
      [line |-> <<"v">>, three |-> FALSE, values |-> <<>>] }

EnvSetMock ==
    [typeAhead |-> FALSE, lines |-> {ml.line : ml \in MockValueLines} \cup {<<"m">>},
     maxLines |-> MaxLines, maxPending |-> 1,
     maxLog |-> MaxLog, countLines |-> TRUE,
     buffers |-> {AudioZero}, sensors |-> {SensorOk},
     silence |-> AudioZero, usual |-> SensorOk, maxVaried |-> 0, countVaried |-> FALSE,
     clfs |-> {ClfOk}, twin |-> FALSE]

NextSetMock ==
    \/ Type(EnvSetMock)
    \/ ReadChar
    \/ CmdToggleMock
    \/ CmdSetMock

SpecSetMock == Init /\ [][NextSetMock]_vars

\* ------------------------------------------------------------------------
\* Tokens: the lines of the documented command set and the operation
\* documented for each
\* ------------------------------------------------------------------------
TokenLines ==
    { [line |-> <<"s">>, op |-> "summer"],
      [line |-> <<"w">>, op |-> "winter"],
      [line |-> <<"v", "3", "0", ",", "6", "0", ",", "9">>, op |-> "set_mock"],
      [line |-> <<"w", "i", "f", "i", " ", "h", "i", "v", "e", " ", "p", "w">>,
       op |-> "persist"],
      [line |-> <<"s", "e", "r", "v", "e", "r", " ", "1", "0", ".", "0", ".", "0", ".", "2">>,
       op |-> "persist"] }

EnvToken ==
    [typeAhead |-> FALSE, lines |-> {tl.line : tl \in TokenLines},
     maxLines |-> MaxLines, maxPending |-> 1,
     maxLog |-> MaxLog, countLines |-> TRUE,
     buffers |-> {AudioZero, AudioFirst}, sensors |-> {SensorOk},
     silence |-> AudioZero, usual |-> SensorOk, maxVaried |-> 0, countVaried |-> FALSE,
     clfs |-> {ClfOk}, twin |-> FALSE]

NextToken ==
    \/ Type(EnvToken)
    \/ ReadChar
    \/ CmdSummer(EnvToken)
    \/ CmdWinter(EnvToken)
    \/ WindowStep
    \/ FinishSummer(EnvToken)
    \/ FinishWinter(EnvToken)
    \/ CmdSetMock

SpecToken == Init /\ [][NextToken]_vars

\* ------------------------------------------------------------------------
\* Sensor entries: inferences in and out of mock mode, before and after the
\* mock values are set, under good and failed climate readings
\* ------------------------------------------------------------------------
SensorLines == { <<"m">>, <<"s">>, <<"w">>, <<"v", "3", "0", ",", "6", "0", ",", "9">> }

EnvSensor ==
    [typeAhead |-> FALSE, lines |-> SensorLines, maxLines |-> 1, maxPending |-> 1,
     maxLog |-> MaxRuns, countLines |-> FALSE,
     buffers |-> {AudioZero},
     sensors |-> {SensorOk, SensorCold, SensorReadFail},
     silence |-> AudioZero, usual |-> SensorOk, maxVaried |-> 0, countVaried |-> FALSE,
     clfs |-> {ClfOk}, twin |-> FALSE]

NextSensor ==
    \/ Type(EnvSensor)
    \/ ReadChar
    \/ CmdToggleMock
    \/ CmdSetMock
    \/ CmdSummer(EnvSensor)
    \/ CmdWinter(EnvSensor)
    \/ WindowStep
    \/ FinishSummer(EnvSensor)
    \/ FinishWinter(EnvSensor)

SpecSensor == Init /\ [][NextSensor]_vars

\* ------------------------------------------------------------------------
\* Long lines: lines of 0, 1, 62, 63, 64 and 65 characters, typed ahead of
\* the loop, a Summer command among them
\* ------------------------------------------------------------------------
\* A line of n characters that starts with first
LineOf(first, n) == [i \in 1..n |-> IF i = 1 THEN first ELSE "z"]

LongLines ==
    { <<>>, <<"p">>, <<"s">>, LineOf("p", CMD_MAX - 1), LineOf("x", CMD_MAX),
      LineOf("p", CMD_MAX + 1), LineOf("p", CMD_MAX + 2) }

EnvLine ==
    [typeAhead |-> TRUE, lines |-> LongLines, maxLines |-> MaxLines,
     maxPending |-> MaxPending, maxLog |-> MaxLog, countLines |-> TRUE,
     buffers |-> {AudioZero}, sensors |-> {SensorOk},
     silence |-> AudioZero, usual |-> SensorOk, maxVaried |-> 0, countVaried |-> FALSE,
     clfs |-> {ClfOk}, twin |-> FALSE]

NextLine ==
    \/ Type(EnvLine)
    \/ ReadChar
    \/ EmptyLine
    \/ CmdPing
    \/ CmdUnknown
    \/ CmdSummer(EnvLine)
    \/ WindowStep
    \/ FinishSummer(EnvLine)

SpecLine == Init /\ [][NextLine]_vars

\* ------------------------------------------------------------------------
\* Configuration storage across reboots: after load_config at boot the
\* configuration commands change fields of sys_config, save_config stores
\* it, and the next boot loads it
\* ------------------------------------------------------------------------
\* What the configuration commands may store in sys_config
WifiValues ==
    { [ssid |-> Bytes(<<"b", "e", "e", "s">>), pass |-> Bytes(<<"w", "a", "x">>)],
      [ssid |-> Bytes(<<"h", "i", "v", "e">>), pass |-> <<>>] }

ServerValues == {DEFAULT_SERVER_IP, FIRMWARE_DEFAULT_SERVER_IP, Bytes(<<"1", "0", ".", "0", ".", "0", ".", "2">>)}

\* `wifi <ssid> <pass>`: the two credential fields of sys_config are replaced
SetWifi ==
    /\ cfg_status.outcome # "none"
    /\ \E w \in WifiValues :
          sys_config' = [sys_config EXCEPT !.wifi_ssid = w.ssid, !.wifi_pass = w.pass]
    /\ UNCHANGED <<flash, cfg_status, saved, progVars, net>>

\* `server <ip>`: the server address of sys_config is replaced
SetServer ==
    /\ cfg_status.outcome # "none"
    /\ \E ip \in ServerValues : sys_config' = [sys_config EXCEPT !.server_ip = ip]
    /\ UNCHANGED <<flash, cfg_status, saved, progVars, net>>

\* save_config of the beewatch-release build (flash_config.h:81-103)
SaveConfig ==
    /\ cfg_status.build = "release"
    /\ cfg_status.outcome # "none"
    /\ sys_config' = [sys_config EXCEPT !.checksum = save_config(sys_config).checksum]
    /\ flash' = save_config(sys_config)
    /\ saved' = [done |-> TRUE, reloaded |-> FALSE, cfg |-> sys_config]
    /\ UNCHANGED <<cfg_status, progVars, net>>

\* The bytes that may follow sys_config in memory
AfterConfig == {Word(0), <<255, 255, 255, 255>>, Word(8000)}

\* save_config of the firmware build (flash_config.h:45-52)
FirmwareSaveConfig ==
    /\ cfg_status.build = "firmware"
    /\ cfg_status.outcome # "none"
    /\ \E after_cfg \in AfterConfig : flash' = firmware_save_config(sys_config, after_cfg)
    /\ saved' = [done |-> TRUE, reloaded |-> FALSE, cfg |-> sys_config]
    /\ UNCHANGED <<sys_config, cfg_status, progVars, net>>

\* A reset: the statics are zeroed again, the sector keeps what it holds
Reboot ==
    /\ cfg_status.outcome # "none"
    /\ sys_config' = ZeroConfig
    /\ cfg_status' = [cfg_status EXCEPT !.outcome = "none"]
    /\ UNCHANGED <<flash, saved, progVars, net>>

NextStore ==
    \/ PowerOn
    \/ LoadConfig
    \/ FirmwareLoadConfig
    \/ SetWifi
    \/ SetServer
    \/ SaveConfig
    \/ FirmwareSaveConfig
    \/ Reboot

SpecStore == Init /\ [][NextStore]_vars

\* ------------------------------------------------------------------------
\* Properties
\* ------------------------------------------------------------------------
\* A step of the control loop that reads a line end with a non-empty command
\* buffer: the step that executes the command in cmd_buffer
Dispatch ==
    /\ pc = "loop" /\ stdin # <<>> /\ Head(stdin) \in EOL /\ ptr > 0
    /\ stdin' = Tail(stdin)

\* The value a gain line asks for, as its text reads; "NaN" when the argument
\* is not a number
GainLines ==
    { [line |-> <<"g", "2", ".", "0">>, value |-> 2 * FX, numeric |-> TRUE],
      [line |-> <<"g", "3", ".", "0">>, value |-> 3 * FX, numeric |-> TRUE],
      [line |-> <<"g", "0">>, value |-> 0, numeric |-> TRUE],
      [line |-> <<"g", "-", "1">>, value |-> -1 * FX, numeric |-> TRUE],
      [line |-> <<"g", "0", ".", "5">>, value |-> FX \div 2, numeric |-> TRUE],
      [line |-> <<"g", "x">>, value |-> 0, numeric |-> FALSE] }

\* C3: a gain-set command with value v sets the gain compensation to v if and
\* only if 0 < v <= 2.0; any other argument leaves the gain exactly as it was.
C3_GainSetInRangeOnly ==
    [][\A g \in GainLines :
          (Dispatch /\ cmd_buffer = g.line) =>
              IF g.numeric /\ g.value > 0 /\ g.value <= 2 * FX
              THEN g_gain_compensation' = g.value
              ELSE g_gain_compensation' = g_gain_compensation]_vars

\* g2.0 was accepted and a following g3.0 was rejected
C3_Witness ==
    /\ cur_line = <<"g", "3", ".", "0">>
    /\ out = <<"GAIN_RANGE">>
    /\ g_gain_compensation = 2 * FX

Min(a, b) == IF a < b THEN a ELSE b

\* The last min(Len(log), n) entries of log, in order
LastN(log, n) == SubSeq(log, Len(log) - Min(Len(log), n) + 1, Len(log))

\* C1: each rolling history holds exactly the last min(n, 12) values inserted
\* since the most recent clear, in insertion order, and never more than 12.
C1_HistoryIsLast12 ==
    /\ g_density_history = LastN(dlog, 12)
    /\ g_temp_history = LastN(tlog, 12)
    /\ Len(g_density_history) <= 12
    /\ Len(g_temp_history) <= 12

\* A 13th density was inserted after 12 others of which the oldest differs
\* from the second oldest: the oldest is gone, the other 12 are kept
C1_Witness ==
    /\ Len(dlog) = 13
    /\ dlog[1] # dlog[2]
    /\ Len(g_density_history) = 12
    /\ g_density_history[1] = dlog[2]
    /\ g_density_history[12] = dlog[13]

\* C2: in a Summer inference the current density is in the history before the
\* rolling average is taken: spike_ratio = density / (average of the history
\* with the new value + 1e-6), and on the first Summer inference after a clear
\* the average is the current density.
C2_SpikeUsesUpdatedHistory ==
    [][(Len(dlog') = Len(dlog) + 1) =>
          LET d   == dlog'[Len(dlog')]
              h   == g_density_history'
              avg == SumSeq(h) \div Len(h)
          IN  /\ h # <<>>
              /\ h[Len(h)] = d
              /\ g_features_summer'[3] = DivF(d, avg + EPS)
              /\ (dlog = <<>>) => avg = d]_vars

\* a second Summer inference whose density differs from the first one's
C2_Witness ==
    /\ Len(dlog) = 2
    /\ dlog[1] # dlog[2]
    /\ g_density_history = dlog
    /\ g_features_summer[3] = DivF(dlog[2], (dlog[1] + dlog[2]) \div 2 + EPS)
    /\ g_features_summer[3] # DivF(dlog[2], dlog[1] + EPS)

\* The buffer positions (from 1) of the samples the first n windows feed to
\* the filters, in the order they are fed
FedSamples(n) ==
    [j \in 1..(n * FFT_SIZE) |->
        ((j - 1) \div FFT_SIZE) * FFT_HOP + ((j - 1) % FFT_SIZE) + 1]

\* The filter state after one long sequence of samples: run carries the
\* number of samples done and the filter state they leave
RECURSIVE LongRun(_, _, _, _, _)
LongRun(run, buf, positions, dc, gain) ==
    IF run.done = Len(positions) THEN run.filt
    ELSE LongRun([done |-> run.done + 1,
                  filt |-> FilterSample(run.filt,
                                        Condition(buf[positions[run.done + 1]], dc, gain)).f],
                 buf, positions, dc, gain)

\* A long run that starts from the reset state
FromReset == [done |-> 0, filt |-> ZeroFilter]

\* C4: within a pass the filter state is zero before the first window and is
\* never reset between windows: after any number of windows it is the state
\* that one long run over the same samples leaves.
C4_FilterContinuity ==
    (pc = "dsp") =>
        pass.filt = LongRun(FromReset, g_audio_buffer, FedSamples(win), dc_offset,
                            g_gain_compensation)

\* the last window of a pass is done and the first window had left the
\* filters in a state that is not the reset state
C4_Witness ==
    /\ pc = "dsp"
    /\ win = num_windows
    /\ win >= 2
    /\ LongRun(FromReset, g_audio_buffer, FedSamples(1), dc_offset,
               g_gain_compensation) # ZeroFilter
    /\ pass.filt # ZeroFilter

\* The last command was a run-inference command and it has completed
InferenceDone == pc = "loop" /\ cur \in {"s", "S", "w", "W"}

\* The vector handed to the classifier is the one its twin execution hands
VectorsAgree ==
    /\ (cur \in {"s", "S"}) => g_features_summer = twin_summer
    /\ (cur \in {"w", "W"}) => g_features_winter = twin_winter

\* C5 as claimed: with mock mode on, two executions of a run-inference command
\* that differ in the live climate reading and in the live capture hand the
\* same feature vector to the classifier.
C5_MockBypassesAllLiveInputs ==
    (InferenceDone /\ g_mock.on) => VectorsAgree

\* C5 as amended: with mock mode on, two executions of a run-inference command
\* that capture the same audio and differ in the live climate reading end with
\* the same last temperature and humidity and hand the same feature vector to
\* the classifier.
C5_MockBypassesClimateSensor ==
    (InferenceDone /\ g_mock.on /\ twin_audio = g_audio_buffer) =>
        (VectorsAgree /\ twin_last = g_last)

\* an inference in mock mode on a capture that is not silence, whose twin read
\* another climate value and captured the same audio
C5_Witness ==
    /\ InferenceDone
    /\ g_mock.on
    /\ twin_differs
    /\ twin_audio = g_audio_buffer
    /\ g_audio_buffer # AudioZero

\* C6 as claimed: with mock mode off a failed climate read, at the write phase
\* or at the read phase, leaves 25.0 and 50.0 as last temperature and humidity.
C6_FailedReadSetsDefaults ==
    (climate_ret \in {"write_fail", "read_fail"}) =>
        g_last = [temp |-> 25 * FX, hum |-> 50 * FX]

InOut(tag) == \E i \in 1..Len(out) : out[i] = tag

\* C7 as claimed: when the classifier fails in a run-inference command, Summer
\* or Winter, the command reports no inference result.
C7_NoResultOnClassifierFailure ==
    (InferenceDone /\ clf_err) =>
        (~InOut("HIVE_STATUS") /\ ~InOut("JSON_OUT") /\ ~InOut("INF"))

\* What cmd_buffer keeps of a typed line
Kept(line) == SubSeq(line, 1, Min(Len(line), CMD_MAX))

\* C8: commands are executed one at a time in the order they were typed: the
\* line a step dispatches is the oldest line waiting, no command is in
\* execution when it is dispatched, and while a command is in execution no
\* input is read and no other command starts.
C8_OneAtATimeInOrder ==
    [][/\ Dispatch => (inflight = 0 /\ queue # <<>> /\ cur_line' = Kept(Head(queue)))
       /\ inflight' <= 1
       /\ (pc # "loop") => (Len(stdin') >= Len(stdin) /\ cur_line' = cur_line)]_vars

\* a Summer command has completed and the Winter command typed after it is in
\* execution
C8_Witness ==
    /\ pc = "dsp"
    /\ cur_line = <<"w">>
    /\ Len(dlog) = 1
    /\ typed = 2
    /\ queue = <<>>

\* C9: whatever the outcome of a command, every line typed is eventually
\* executed and the loop is back reading input.
C9_EveryCommandExecuted == (queue # <<>>) ~> (queue = <<>> /\ pc = "loop")

\* a command was executed after one whose climate read and classifier call
\* had both failed
C9_Witness ==
    /\ cur_line = <<"p">>
    /\ out = <<"PONG">>
    /\ clf_err
    /\ climate_ret = "read_fail"
    /\ queue = <<>>

\* C10: a perform_request whose wait reaches 3000 ms aborts the connection and
\* returns success exactly when at least one response byte was received, with
\* the received bytes retained; no call is timed out before 3000 ms of waiting.
C10_TimeoutPartialSuccess ==
    [][/\ (net.phase \in {"connecting", "open"} /\ net.elapsed >= 3000 /\ net' # net) =>
            /\ net'.phase = "idle"
            /\ net'.cause = "timeout"
            /\ net'.aborted
            /\ net'.rx = net.rx
            /\ net'.result = IF net.rx > 0 THEN "success" ELSE "failure"
       /\ (net'.cause = "timeout" /\ net.cause # "timeout") => net.elapsed >= 3000]_vars

\* a call that received 10 bytes and then nothing until the timeout
C10_Witness ==
    /\ net.phase = "idle"
    /\ net.cause = "timeout"
    /\ net.result = "success"
    /\ net.aborted
    /\ net.rx = 10
    /\ net.elapsed >= 3000

\* The magic value the build that loaded last accepts
AcceptedMagic == IF cfg_status.build = "release" THEN CONFIG_MAGIC ELSE FIRMWARE_CONFIG_MAGIC

\* The stored record carries the valid magic and the checksum of its bytes
StoredValid == flash.magic = AcceptedMagic /\ flash.checksum = calc_checksum(flash)

\* The fields of a configuration that a user sets
Fields(cfg) == <<cfg.wifi_ssid, cfg.wifi_pass, cfg.server_ip, cfg.server_port, cfg.node_id>>

\* C11 as claimed: load_config yields the stored configuration only when the
\* stored record has the valid magic and the checksum of its bytes; for every
\* other record it yields the defaults (default node id, a default server
\* address, port 8000).
C11_LoadValidatesRecord ==
    (cfg_status.outcome # "none") =>
        /\ (cfg_status.outcome = "stored") =>
              (StoredValid /\ Fields(sys_config) = Fields(flash))
        /\ ~StoredValid =>
              /\ cfg_status.outcome = "defaults"
              /\ sys_config.node_id = DEFAULT_NODE_ID
              /\ sys_config.server_ip \in {DEFAULT_SERVER_IP, FIRMWARE_DEFAULT_SERVER_IP}
              /\ sys_config.server_port = 8000
              /\ sys_config.wifi_ssid = <<>>

\* A capture whose samples all have the same value
Constant(buf) == \A i \in 1..AUDIO_BUFFER_SIZE : buf[i] = buf[1]

\* A Summer inference has completed in mock mode over a constant capture
MockConstantDone ==
    pc = "loop" /\ cur \in {"s", "S"} /\ g_mock.on /\ Constant(g_audio_buffer)

\* C12: with mock mode enabled (temperature 25.0, humidity 50.0, hour 14.0) a
\* Summer inference over an all-zero capture, and over any constant capture,
\* yields RMS density 0, all 20 averaged bin magnitudes 0, spike ratio 0 and
\* the vector [25.0, 50.0, 14.0, 0, 16 zeros], whatever the gain and the
\* prior history.
C12_ConstantCaptureIsSilent ==
    MockConstantDone =>
        /\ dlog[Len(dlog)] = 0
        /\ \A k \in 0..(NUM_FREQ_BINS - 1) : pass.bin_accum[k] = 0
        /\ g_features_summer =
              [i \in 0..19 |-> CASE i = 0 -> 25 * FX
                                 [] i = 1 -> 50 * FX
                                 [] i = 2 -> 14 * FX
                                 [] OTHER -> 0]

\* The case of C12 after a louder inference and a change of gain: a non-zero
\* constant capture, a gain that is not the initial one, a non-zero density
\* in the history
C12_Witness ==
    /\ MockConstantDone
    /\ g_audio_buffer = AudioConst
    /\ g_gain_compensation = 2 * FX
    /\ Len(g_density_history) >= 2
    /\ g_density_history[1] > 0

\* The three mock values
MockValues(mock) == <<mock.temp, mock.hum, mock.hour>>

\* C13: a set-mock-values command whose argument does not parse as three
\* numbers is rejected with a user-visible message and leaves the three mock
\* values and the mock flag exactly as they were; the three values are only
\* ever updated together, never partially.
C13_MalformedMockRejected ==
    [][ \A ml \in MockValueLines :
           (Dispatch /\ cmd_buffer = ml.line) =>
               IF ml.three
               THEN MockValues(g_mock') = ml.values /\ g_mock'.on = g_mock.on
               ELSE g_mock' = g_mock /\ out' # <<>> ]_vars

\* The part of C13 about the state: a malformed line changes neither the mock
\* values nor the flag, a well-formed one sets all three values
C13_MockValuesSetTogether ==
    [][ \A ml \in MockValueLines :
           (Dispatch /\ cmd_buffer = ml.line) =>
               IF ml.three
               THEN MockValues(g_mock') = ml.values /\ g_mock'.on = g_mock.on
               ELSE g_mock' = g_mock ]_vars

\* C14: every local input line is mapped to the operation documented for its
\* token: s / w run a Summer / Winter inference, v sets the three mock
\* values, and a wifi or server line persists configuration and never runs an
\* inference or an audio capture.
C14_LineRunsDocumentedOperation ==
    [][ \A tl \in TokenLines :
           (Dispatch /\ cmd_buffer = tl.line) =>
               CASE tl.op = "summer"   -> pc' = "dsp" /\ cur' = "s"
                 [] tl.op = "winter"   -> pc' = "dsp" /\ cur' = "w"
                 [] tl.op = "set_mock" -> MockValues(g_mock') = <<30 * FX, 60 * FX, 9 * FX>>
                 [] OTHER              -> /\ pc' = "loop"
                                          /\ g_audio_buffer' = g_audio_buffer
                                          /\ UNCHANGED histVars ]_vars

\* The window loop of a pass has ended (main.cpp:424)
WindowsDone == pc = "dsp" /\ win = num_windows

\* C15: the RMS density of a pass is taken over every sample of the buffer:
\* the number of samples that are filtered and contribute to the RMS equals
\* the buffer length, the same samples over which the DC offset is averaged.
C15_RmsOverWholeBuffer ==
    WindowsDone =>
        /\ pass.rms_count = AUDIO_BUFFER_SIZE
        /\ Len(FedSamples(win)) = Len(g_audio_buffer)

\* The population variance of the values of h: the mean of the squared
\* deviations from the mean, the divisor being the number of values
PopulationVariance(h) ==
    LET n    == Len(h)
        mean == SumSeq(h) \div n
    IN  SumSeq([i \in 1..n |-> Mul(h[i] - mean, h[i] - mean)]) \div n

\* A Winter inference has completed
WinterDone == pc = "loop" /\ cur \in {"w", "W"}

\* C16: in a Winter inference the current temperature is inserted into the
\* temperature history first; temp_stability is then 0 when the history,
\* the current value included, has fewer than 2 entries, and otherwise the
\* population variance of the history; a history of equal temperatures
\* gives 0.
C16_StabilityIsPopulationVariance ==
    WinterDone =>
        LET h == g_temp_history
        IN  /\ h # <<>>
            /\ h[Len(h)] = g_features_winter[0]
            /\ h = LastN(tlog, HISTORY_SIZE)
            /\ g_features_winter[2] =
                  IF Len(h) < 2 THEN 0 ELSE PopulationVariance(h)
            /\ (\A i \in 1..Len(h) : h[i] = h[1]) => g_features_winter[2] = 0

\* A Winter inference over a history of two different temperatures: the
\* variance is not 0
C16_Witness ==
    /\ WinterDone
    /\ Len(g_temp_history) = 2
    /\ g_temp_history[1] # g_temp_history[2]
    /\ g_features_winter[2] > 0

\* The sensor entries of the vector the last inference has built: temperature,
\* humidity and, in a Summer vector, hour
SensorEntries ==
    IF cur \in {"s", "S"}
    THEN <<g_features_summer[0], g_features_summer[1], g_features_summer[2]>>
    ELSE <<g_features_winter[0], g_features_winter[1]>>

\* The values of a climate reading s
Reading(s) == [temp |-> ConvertTemp(s.t_raw), hum |-> ConvertHum(s.h_raw)]

\* C17: for every run-inference command the sensor entries of the feature
\* vector are selected by the mock flag as it stands when the vector is
\* built: with the flag set they are the current mock temperature, humidity
\* and hour; with the flag clear, temperature and humidity are the last live
\* climate reading and hour is the constant 14.0.
C17_SensorEntriesFollowMockFlag ==
    InferenceDone =>
        LET want == IF g_mock.on
                    THEN <<g_mock.temp, g_mock.hum, g_mock.hour>>
                    ELSE <<g_last.temp, g_last.hum, 14 * FX>>
        IN  /\ SensorEntries = SubSeq(want, 1, Len(SensorEntries))
            /\ (~g_mock.on /\ climate_ret = "ok")
                  => g_last \in {Reading(s) : s \in {SensorOk, SensorCold}}

\* A Summer inference in mock mode after the mock values were set to 30, 60
\* and 9 while the live sensor reads something else
C17_Witness ==
    /\ InferenceDone
    /\ cur = "s"
    /\ g_mock.on
    /\ g_features_summer[2] = 9 * FX
    /\ g_features_summer[0] = 30 * FX

\* C18: a classifier failure during a run-inference command has no effect on
\* history state: after the failed command the density history and the
\* temperature history are exactly what they were before the command.
C18_ClassifierFailureKeepsHistories ==
    [][ (pc = "dsp" /\ pc' = "loop" /\ cur \in {"s", "S", "w", "W"} /\ clf_err')
            => (g_density_history' = g_density_history /\ g_temp_history' = g_temp_history)
      ]_vars

\* The step that ends a Summer / a Winter inference, and the step that runs
\* ClearHistory
SummerEnds == pc = "dsp" /\ pc' = "loop" /\ cur \in {"s", "S"}
WinterEnds == pc = "dsp" /\ pc' = "loop" /\ cur \in {"w", "W"}
ClearRuns  == Dispatch /\ cmd_buffer[1] \in {"c", "C"}

\* h2 is h with one value appended, the oldest value evicted or not
Appended(h, h2) ==
    /\ h2 # <<>>
    /\ SubSeq(h2, 1, Len(h2) - 1) \in {h, IF h = <<>> THEN h ELSE Tail(h)}

\* C19: each command changes only the history it owns: a Summer inference
\* appends to the density history and leaves the temperature history
\* unchanged, a Winter inference the other way round, only ClearHistory
\* empties both, and ReadClimate, DebugDump, audio streaming, ToggleMock,
\* SetMockValues, SetGain and Ping leave both unchanged.
C19_CommandsOwnTheirHistory ==
    [][ /\ SummerEnds => /\ Appended(g_density_history, g_density_history')
                         /\ g_temp_history' = g_temp_history
        /\ WinterEnds => /\ Appended(g_temp_history, g_temp_history')
                         /\ g_density_history' = g_density_history
        /\ ClearRuns => g_density_history' = <<>> /\ g_temp_history' = <<>>
        /\ (g_density_history' # g_density_history) => (SummerEnds \/ ClearRuns)
        /\ (g_temp_history' # g_temp_history) => (WinterEnds \/ ClearRuns) ]_vars

\* A DebugDump has completed after a Summer inference and the density
\* history still holds that inference's one value
C19_Witness ==
    /\ pc = "loop"
    /\ cur = "d"
    /\ out = <<"SENSOR", "REC", "DSP", "DEBUG">>
    /\ Len(g_density_history) = 1
    /\ g_temp_history = <<>>

\* The step of the loop that reads a line end (main.cpp:681)
LineEnd == pc = "loop" /\ stdin # <<>> /\ Head(stdin) \in EOL /\ stdin' = Tail(stdin)

\* C20: for any sequence of input characters the command buffer index stays
\* within 0..63: characters beyond the 63rd of a line are dropped, the
\* terminator is written inside the 64-byte buffer, the index returns to 0
\* after every line end, and an empty line executes no command.
C20_BufferIndexInBounds ==
    /\ [](ptr \in 0..CMD_MAX /\ Len(cmd_buffer) = ptr)
    /\ [][ /\ Dispatch => cmd_buffer = Kept(Head(queue))
           /\ LineEnd => ptr < CMD_MAX + 1
           /\ ((LineEnd \/ pc = "dsp") /\ pc' = "loop") => ptr' = 0
           /\ (LineEnd /\ ptr = 0) =>
                 UNCHANGED <<pc, cur, cur_line, out, dspVars, histVars, cfgVars,
                             featVars, sensVars>> ]_vars

\* A line of 65 characters has been read up to its line end: the index
\* stands at 63 and two characters were dropped
C20_Witness ==
    /\ ptr = CMD_MAX
    /\ queue # <<>>
    /\ Len(Head(queue)) = CMD_MAX + 2
    /\ stdin # <<>>
    /\ Head(stdin) \in EOL

\* The step that runs load_config
LoadStep == cfg_status.outcome = "none" /\ cfg_status'.outcome # "none"

\* What a save of cfg followed by a load gives, in the build that runs
SavedAndLoaded(cfg) ==
    IF cfg_status'.build = "release"
    THEN load_config(save_config(cfg))
    ELSE firmware_load_config(firmware_save_config(cfg, Word(0)))

====
